---- MODULE Spec2Model ----
(***************************************************************************)
(* A model of firestore_read/server.py: the MCP server "firestore-read".   *)
(* The state is the process (module import, main, the handlers the         *)
(* transport invokes one at a time) and the remote document store the      *)
(* handlers read.  A handler is one action: its whole body, with every     *)
(* store primitive it calls.  A store primitive may raise; which one does  *)
(* is an input of the call.                                                *)
(*                                                                         *)
(* Python values: None or a missing dict key is the empty tuple <<>>, a    *)
(* present value v is <<v>>.  A str that the code takes apart (a URI, a    *)
(* collection id inside a URI) is a sequence of characters.                *)
(***************************************************************************)
EXTENDS Integers, Sequences, FiniteSets

\* Bounds of the model.
MaxDocs == 3
MaxWhere == 2
MaxLimit == 2
MaxColls == 2

VARIABLES
    env,         \* the required environment variables that are set
    phase,       \* "loaded" | "serving" | "handled" | "exited"
    db,          \* the module-level store client exists
    store,       \* the remote store: [colls, ndocs]
    call,        \* the request being handled
    outcome,     \* what the handler returned or raised
    query,       \* the query object the handler built
    storeCalls   \* the store primitives the handler invoked, in order

vars == <<env, phase, db, store, call, outcome, query, storeCalls>>

----------------------------------------------------------------------------
\* Small helpers.

Min(a, b) == IF a < b THEN a ELSE b

Range(s) == {s[i] : i \in 1..Len(s)}

SeqTake(s, n) == SubSeq(s, 1, Min(n, Len(s)))

\* All sequences over S of length at most n.
SeqsUpTo(S, n) == UNION {[1..k -> S] : k \in 0..n}

\* Option values: None / a missing key, or a present value.
None == <<>>
Some(v) == <<v>>
Opt(S) == {None} \cup {Some(v) : v \in S}

----------------------------------------------------------------------------
\* The environment and the store.

required_vars == {"FIREBASE_API_KEY", "FIREBASE_AUTH_DOMAIN", "FIREBASE_PROJECT_ID"}

\* Collection ids the store may hold.  Firestore forbids "/" in an id, not "#".
CollectionIds == {<<"u">>, <<"o">>, <<"o", "#", "x">>}

Age(i) == 10 + ((i * 7) % 5) * 6
City(i) == IF i % 2 = 1 THEN "NYC" ELSE "LA"
Doc(i) == [id |-> i, data |-> [age |-> Age(i), city |-> City(i)]]

IndexOf(s, x) == CHOOSE i \in 1..Len(s) : s[i] = x

\* The documents of collection c, in the store's default order.  A collection
\* the store does not hold streams no documents.
DocsIn(c) ==
    IF c \in Range(store.colls)
    THEN LET n == store.ndocs - (IndexOf(store.colls, c) - 1)
         IN [i \in 1..(IF n > 0 THEN n ELSE 0) |-> Doc(i)]
    ELSE <<>>

Stores ==
    {[colls |-> cs, ndocs |-> n] :
        cs \in {s \in SeqsUpTo(CollectionIds, MaxColls) :
                    \A i, j \in 1..Len(s) : i # j => s[i] # s[j]},
        n \in 0..MaxDocs}

----------------------------------------------------------------------------
\* Results of a handler.

NoQuery == [collection |-> None, filters |-> <<>>, order |-> None, limit |-> None]

Blank ==
    [kind |-> "none", exc |-> "", text |-> "", detail |-> "",
     docs |-> <<>>, resources |-> <<>>, tools |-> {}]

Raise(exc, text, detail) ==
    [Blank EXCEPT !.kind = "raise", !.exc = exc, !.text = text, !.detail = detail]

\* [types.TextContent(type="text", text=json.dumps(result, indent=2))]
ReturnJson(docs) ==
    [Blank EXCEPT !.kind = "return", !.text = "json", !.docs = docs]

\* [types.TextContent(type="text", text=f"{prefix}{str(e)}")]
ReturnErrorText(prefix, detail) ==
    [Blank EXCEPT !.kind = "return", !.text = prefix, !.detail = detail]

NoCall ==
    [op |-> "none", name |-> "", arguments |-> None, uri |-> <<>>,
     fault |-> "none", failAt |-> -1]

----------------------------------------------------------------------------
\* The store's query primitives.  The store (the Firestore client library) is
\* outside the repository: a query object is what the builder calls put into
\* it, and stream() evaluates it filter -> order -> limit.

\* db.collection(collection)
Collection(c) == [NoQuery EXCEPT !.collection = Some(c)]

\* A mutation of Where: the new constraint replaces the earlier ones.
WhereReplace(q, f) == [q EXCEPT !.filters = <<f>>]

\* query.where(field, op, value)
Where(q, f) == [q EXCEPT !.filters = Append(@, f)]

\* query.order_by(field, direction=...)
OrderBy(q, field, direction) ==
    [q EXCEPT !.order = Some([field |-> field, direction |-> direction])]

\* query.limit(n)
Limit(q, n) == [q EXCEPT !.limit = Some(n)]

Matches(d, f) ==
    CASE f.op = "==" -> d.data[f.field] = f.value
      [] f.op = ">"  -> d.data[f.field] > f.value
      [] f.op = "<"  -> d.data[f.field] < f.value

RECURSIVE ApplyFilters(_, _)
ApplyFilters(docs, filters) ==
    IF filters = <<>> THEN docs
    ELSE ApplyFilters(SelectSeq(docs, LAMBDA d : Matches(d, Head(filters))),
                      Tail(filters))

\* d comes before e in the given direction (ties keep the earlier document).
Before(d, e, o) ==
    IF o.direction = "DESCENDING"
    THEN d.data[o.field] > e.data[o.field]
    ELSE d.data[o.field] < e.data[o.field]

RECURSIVE Insert(_, _, _)
Insert(sorted, d, o) ==
    IF sorted = <<>> THEN <<d>>
    ELSE IF Before(d, Head(sorted), o) THEN <<d>> \o sorted
    ELSE <<Head(sorted)>> \o Insert(Tail(sorted), d, o)

RECURSIVE SortDocs(_, _)
SortDocs(docs, o) ==
    IF docs = <<>> THEN <<>>
    ELSE Insert(SortDocs(SubSeq(docs, 1, Len(docs) - 1), o), docs[Len(docs)], o)

\* query.stream(): the documents of the query, as the store evaluates it.
Stream(q) ==
    LET base == DocsIn(q.collection[1])
        filtered == ApplyFilters(base, q.filters)
        ordered == IF q.order = None THEN filtered ELSE SortDocs(filtered, q.order[1])
    IN IF q.limit = None THEN ordered ELSE SeqTake(ordered, q.limit[1])

\* result.append({"id": doc.id, "data": doc.to_dict()}) for each doc
Project(docs) == [i \in 1..Len(docs) |-> [id |-> docs[i].id, data |-> docs[i].data]]

----------------------------------------------------------------------------
\* handle_call_tool

\* Python truthiness of the values the handler tests.
TruthyDict(d) == \E k \in DOMAIN d : d[k] # None
TruthyOptDict(o) == o # None /\ TruthyDict(o[1])
TruthyOptInt(o) == o # None /\ o[1] # 0

\* A handler in progress: done once it has returned or raised.
Start == [done |-> FALSE, outcome |-> Blank, query |-> NoQuery, calls |-> <<>>]
Finish(st, out) == [st EXCEPT !.done = TRUE, !.outcome = out]
Called(st, prim) == [st EXCEPT !.calls = Append(@, prim)]

\* query = db.collection(collection).  The client splits the path it is given,
\* so db.collection(None) raises inside the call, before any try.
StepCollection(st, collection, fault) ==
    IF st.done THEN st
    ELSE IF collection = None
         THEN Finish(Called(st, "collection"), Raise("AttributeError", "collection", ""))
    ELSE IF fault = "collection"
         THEN Finish(Called(st, "collection"), Raise("StoreError", "collection", ""))
    ELSE [Called(st, "collection") EXCEPT !.query = Collection(collection[1])]

\* for field, op, value in where_filters: query = query.where(field, op, value)
RECURSIVE StepWhere(_, _, _)
StepWhere(st, where_filters, fault) ==
    IF st.done \/ where_filters = <<>> THEN st
    ELSE IF fault = "where"
         THEN Finish(Called(st, "where"), Raise("StoreError", "where", ""))
    ELSE StepWhere([Called(st, "where") EXCEPT !.query = Where(@, Head(where_filters))],
                   Tail(where_filters), fault)

\* DESCENDING if order_by["direction"] == "desc" else ASCENDING
Direction(direction) == IF direction = "desc" THEN "DESCENDING" ELSE "ASCENDING"

\* if order_by: query = query.order_by(order_by["field"], direction=...)
StepOrderBy(st, order_by, fault) ==
    IF st.done \/ ~TruthyOptDict(order_by) THEN st
    ELSE IF order_by[1].field = None
         THEN Finish(st, Raise("KeyError", "field", ""))
    ELSE IF order_by[1].direction = None
         THEN Finish(st, Raise("KeyError", "direction", ""))
    ELSE IF fault = "order_by"
         THEN Finish(Called(st, "order_by"), Raise("StoreError", "order_by", ""))
    ELSE [Called(st, "order_by") EXCEPT
             !.query = OrderBy(@, order_by[1].field[1], Direction(order_by[1].direction[1]))]

\* if limit: query = query.limit(limit)
StepLimit(st, limit, fault) ==
    IF st.done \/ ~TruthyOptInt(limit) THEN st
    ELSE IF fault = "limit"
         THEN Finish(Called(st, "limit"), Raise("StoreError", "limit", ""))
    ELSE [Called(st, "limit") EXCEPT !.query = Limit(@, limit[1])]

\* try: docs = query.stream() ... except Exception as e: return [TextContent(...)]
StepStream(st, fault) ==
    IF st.done THEN st
    ELSE IF fault = "stream"
         THEN Finish(Called(st, "stream"),
                     ReturnErrorText("Error querying collection: ", "stream"))
    ELSE Finish(Called(st, "stream"), ReturnJson(Project(Stream(st.query))))

\* The body of the "query-collection" branch.
query_collection(arguments, fault) ==
    LET collection == arguments.collection
        where_filters == IF arguments.where = None THEN <<>> ELSE arguments.where[1]
        limit == arguments.limit
        order_by == arguments.orderBy
        s1 == StepCollection(Start, collection, fault)
        s2 == StepWhere(s1, where_filters, fault)
        s3 == StepOrderBy(s2, order_by, fault)
        s4 == StepLimit(s3, limit, fault)
    IN StepStream(s4, fault)

handle_call_tool(name, arguments, fault) ==
    IF arguments = None \/ ~TruthyDict(arguments[1])
    THEN Finish(Start, Raise("ValueError", "Missing arguments", ""))
    ELSE IF name = "query-collection"
    THEN query_collection(arguments[1], fault)
    ELSE Finish(Start, Raise("ValueError", "Unknown tool: ", name))

\* The tools handle_list_tools returns, by name.
handle_list_tools == {"query-collection"}

----------------------------------------------------------------------------
\* Resource URIs: AnyUrl(f"firestore://{collection.id}"), uri.scheme, uri.netloc

FirestoreScheme == <<"f", "i", "r", "e", "s", "t", "o", "r", "e">>

\* f"firestore://{collection.id}"
ResourceUri(id) == FirestoreScheme \o <<":", "/", "/">> \o id

\* The first index of s holding a character of S, Len(s) + 1 when there is none.
FirstIndex(s, S) ==
    IF \E i \in 1..Len(s) : s[i] \in S
    THEN CHOOSE i \in 1..Len(s) : s[i] \in S /\ \A j \in 1..(i - 1) : s[j] \notin S
    ELSE Len(s) + 1

\* uri.scheme: the characters before the first ":".
Scheme(uri) == SubSeq(uri, 1, FirstIndex(uri, {":"}) - 1)

\* uri.netloc: the authority component, from after "://" to the first "/", "?"
\* or "#" (RFC 3986); the URI text itself is not escaped when it is built.
Netloc(uri) ==
    LET rest == SubSeq(uri, FirstIndex(uri, {":"}) + 3, Len(uri))
    IN SubSeq(rest, 1, FirstIndex(rest, {"/", "?", "#"}) - 1)

\* types.Resource(uri=..., name=f"Collection: {collection.id}", ...)
Resource(id) == [uri |-> ResourceUri(id), name |-> id, mimeType |-> "application/json"]

----------------------------------------------------------------------------
\* handle_list_resources, handle_read_resource

\* A mutation of handle_list_resources: the resources built before the failure
\* are returned.
list_resources_partial(colls, failAt) ==
    IF failAt = 0 THEN Finish(Called(Start, "collections"), Raise("StoreError", "collections", ""))
    ELSE IF failAt \in 1..Len(colls)
    THEN Finish(Called(Start, "collections"),
                [Blank EXCEPT !.kind = "return", !.text = "resources",
                              !.resources = [i \in 1..(failAt - 1) |-> Resource(colls[i])]])
    ELSE Finish(Called(Start, "collections"),
                [Blank EXCEPT !.kind = "return", !.text = "resources",
                              !.resources = [i \in 1..Len(colls) |-> Resource(colls[i])]])

\* failAt = 0: db.collections() raises; failAt = i: the i-th step of the
\* comprehension raises; otherwise nothing does.  All of it is inside the try.
list_resources(colls, failAt) ==
    IF failAt \in 0..Len(colls)
    THEN Finish(Called(Start, "collections"),
                [Blank EXCEPT !.kind = "return", !.text = "resources", !.resources = <<>>])
    ELSE Finish(Called(Start, "collections"),
                [Blank EXCEPT !.kind = "return", !.text = "resources",
                              !.resources = [i \in 1..Len(colls) |-> Resource(colls[i])]])

handle_list_resources(failAt) == list_resources(store.colls, failAt)

handle_read_resource(uri, fault) ==
    IF Scheme(uri) # FirestoreScheme
    THEN Finish(Start, Raise("ValueError", "Unsupported URI scheme: ", ""))
    ELSE LET collection_id == Netloc(uri)
             s1 == [Called(Start, "collection") EXCEPT !.query = Collection(collection_id)]
         IN IF fault = "collection"
            THEN Finish(s1, Raise("StoreError", "collection", ""))
            ELSE IF fault = "stream"
            THEN Finish(Called(s1, "stream"), Raise("StoreError", "stream", ""))
            ELSE Finish(Called(s1, "stream"), ReturnJson(Project(Stream(s1.query))))

----------------------------------------------------------------------------
\* The requests the transport may deliver.

ToolNames ==
    {"query-collection", "list-collections", "get-collection", "create-document",
     "nonsense-op"}

Filters ==
    {[field |-> "age", op |-> ">", value |-> 18],
     [field |-> "city", op |-> "==", value |-> "NYC"]}

Directions == {"asc", "desc", "up"}

OrderByValues == [field : Opt({"age"}), direction : Opt(Directions)]

Faults == {"none", "collection", "where", "order_by", "limit", "stream"}

ReadFaults == {"none", "collection", "stream"}

ReadUris ==
    {ResourceUri(c) : c \in CollectionIds}
    \cup {<<"h", "t", "t", "p", ":", "/", "/", "u">>,
          FirestoreScheme \o <<"s", ":", "/", "/", "u">>,
          <<"f", "i", "r", "e", ":", "/", "/", "u">>,
          ResourceUri(<<"u">>) \o <<"/", "x">>}

Dict(c, w, l, o, dd) ==
    [collection |-> c, where |-> w, limit |-> l, orderBy |-> o, document_data |-> dd]

\* The argument bags of a query-collection call: every combination of its
\* four arguments, each present or absent.
QueryBags ==
    {Some(Dict(c, w, l, o, None)) :
        c \in Opt(CollectionIds), w \in Opt(SeqsUpTo(Filters, MaxWhere)),
        l \in Opt(0..MaxLimit), o \in Opt(OrderByValues)}

\* The argument bags any call may carry: absent, empty, and the arguments of
\* the other operations.
PlainBags ==
    {None} \cup {Some(Dict(c, None, None, None, dd)) :
                    c \in Opt(CollectionIds), dd \in Opt({1})}

----------------------------------------------------------------------------
\* The process.

Init ==
    /\ env \in SUBSET required_vars
    /\ phase = "start"
    /\ db = FALSE
    /\ store \in Stores
    /\ call = NoCall
    /\ outcome = Blank
    /\ query = NoQuery
    /\ storeCalls = <<>>

\* Importing firestore_read.server: the module-level initialize_app and
\* firestore.client run whatever the environment holds, outside any try.
Import ==
    /\ phase = "start"
    /\ \E ok \in BOOLEAN :
          IF ok THEN db' = TRUE /\ phase' = "loaded"
                ELSE db' = FALSE /\ phase' = "crashed"
    /\ UNCHANGED <<env, store, call, outcome, query, storeCalls>>

\* main(): return when a required variable is missing, else server.run.
Main ==
    /\ phase = "loaded"
    /\ LET missing_vars == required_vars \ env
       IN phase' = IF missing_vars # {} THEN "exited" ELSE "serving"
    /\ UNCHANGED <<env, db, store, call, outcome, query, storeCalls>>

Handled(c, r) ==
    /\ phase' = "handled"
    /\ call' = c
    /\ outcome' = r.outcome
    /\ query' = r.query
    /\ storeCalls' = r.calls
    /\ UNCHANGED <<env, db, store>>

ListTools ==
    /\ phase = "serving"
    /\ Handled([NoCall EXCEPT !.op = "list_tools"],
               Finish(Start, [Blank EXCEPT !.kind = "return", !.text = "tools",
                                           !.tools = handle_list_tools]))

CallTool ==
    /\ phase = "serving"
    /\ \E name \in ToolNames :
          \E arguments \in (IF name = "query-collection" THEN QueryBags ELSE {}) \cup PlainBags,
             fault \in (IF name = "query-collection" THEN Faults ELSE {"none"}) :
             LET r == handle_call_tool(name, arguments, fault)
             IN \* a fault is an input only of a call that invokes the failing primitive
                /\ fault # "none" => (r.calls # <<>> /\ r.calls[Len(r.calls)] = fault)
                /\ Handled([NoCall EXCEPT !.op = "call_tool", !.name = name,
                                          !.arguments = arguments, !.fault = fault], r)

ListResources ==
    /\ phase = "serving"
    /\ \E failAt \in -1..Len(store.colls) :
          Handled([NoCall EXCEPT !.op = "list_resources", !.failAt = failAt],
                  handle_list_resources(failAt))

ReadResource ==
    /\ phase = "serving"
    /\ \E uri \in ReadUris, fault \in ReadFaults :
          Handled([NoCall EXCEPT !.op = "read_resource", !.uri = uri, !.fault = fault],
                  handle_read_resource(uri, fault))

\* server.run sends the response (or the error) and waits for the next request.
Respond ==
    /\ phase = "handled"
    /\ phase' = "serving"
    /\ call' = NoCall
    /\ outcome' = Blank
    /\ query' = NoQuery
    /\ storeCalls' = <<>>
    /\ UNCHANGED <<env, db, store>>

Next ==
    \/ Import
    \/ Main
    \/ ListTools
    \/ CallTool
    \/ ListResources
    \/ ReadResource
    \/ Respond

Spec == Init /\ [][Next]_vars

----------------------------------------------------------------------------
\* The vocabulary of the properties.

\* The operation catalog of the specification.
SpecCatalog == {"list-collections", "get-collection", "query-collection", "create-document"}

ToolCallHandled == phase = "handled" /\ call.op = "call_tool"

QueryCallHandled == ToolCallHandled /\ call.name = "query-collection"

\* The handler returned a text result that reports an error.
ErrorResult == outcome.kind = "return" /\ outcome.text \notin {"json", "tools", "resources"}

\* The handler returned the JSON text of documents.
JsonResult == outcome.kind = "return" /\ outcome.text = "json"

CollectionMissing == call.arguments = None \/ call.arguments[1].collection = None

\* The store primitive that fails was invoked, and so raised.
StoreRaised == storeCalls # <<>> /\ storeCalls[Len(storeCalls)] = call.fault

\* The where sequence of the call ([] when absent).
WhereOf(arguments) == IF arguments.where = None THEN <<>> ELSE arguments.where[1]

\* The documents of a collection that satisfy every clause.
MatchingAll(c, clauses) ==
    SelectSeq(DocsIn(c), LAMBDA d : \A i \in 1..Len(clauses) : Matches(d, clauses[i]))

\* The documents in the order a built query asks for.
Ordered(docs, q) == IF q.order = None THEN docs ELSE SortDocs(docs, q.order[1])

Rearrangements(s) ==
    {[i \in 1..Len(s) |-> s[p[i]]] :
        p \in {f \in [1..Len(s) -> 1..Len(s)] : \A i, j \in 1..Len(s) : f[i] = f[j] => i = j}}

\* Every occurrence of primitive a in the calls comes before every one of b.
CalledBefore(a, b) ==
    \A i, j \in 1..Len(storeCalls) : storeCalls[i] = a /\ storeCalls[j] = b => i < j

----------------------------------------------------------------------------
\* C1: for every operation name outside the catalog and every argument bag,
\* handle_call_tool returns a text error result and never raises.
C1_UnknownToolReturnsError ==
    (ToolCallHandled /\ call.name \notin SpecCatalog) => ErrorResult

\* C2: a query-collection call without its collection argument (bag absent,
\* empty, or lacking the key) returns a text error result, does not raise and
\* does not reach the store.
C2_MissingCollectionReturnsError ==
    (QueryCallHandled /\ CollectionMissing) => (ErrorResult /\ storeCalls = <<>>)

\* C3: a failure raised by the store at any step of a query-collection call is
\* returned as the text "Error executing query-collection: <message>" and never
\* leaves the handler.
C3_StoreFailureReturnedAsText ==
    (QueryCallHandled /\ StoreRaised) =>
        (outcome.kind = "return" /\ outcome.text = "Error executing query-collection: ")

\* C4: the operations advertised and executed are exactly the four of the
\* catalog: each is dispatched to the store (list-collections also with an
\* empty or absent bag) and every other name is rejected.
C4_CatalogIsTheFourOperations ==
    /\ (phase = "handled" /\ call.op = "list_tools") => outcome.tools = SpecCatalog
    /\ (ToolCallHandled /\ call.name \in SpecCatalog /\ call.fault = "none"
            /\ (call.name = "list-collections" \/ ~CollectionMissing)
            /\ (call.name = "create-document" => call.arguments[1].document_data # None)
            /\ (call.name = "query-collection" =>
                    call.arguments[1].orderBy \in {None, Some([field |-> Some("age"),
                                                               direction |-> Some("asc")])}))
        => (outcome.kind = "return" /\ ~ErrorResult /\ storeCalls # <<>>)
    /\ (ToolCallHandled /\ call.name \notin SpecCatalog)
        => (storeCalls = <<>> /\ ~JsonResult)

\* C5: with limit = n present (n >= 0, 0 included) and m matching documents the
\* result holds exactly min(n, m) documents, the front of the applied ordering;
\* with limit absent it holds all m.
C5_LimitCapsResult ==
    (QueryCallHandled /\ JsonResult) =>
        LET a == call.arguments[1]
            matching == Ordered(MatchingAll(a.collection[1], WhereOf(a)), query)
        IN IF a.limit = None
           THEN outcome.docs = Project(matching)
           ELSE /\ Len(outcome.docs) = Min(a.limit[1], Len(matching))
                /\ outcome.docs = Project(SeqTake(matching, a.limit[1]))

\* C6: with an orderBy object the query is ordered descending on orderBy.field
\* exactly when direction is "desc", ascending for any other direction and when
\* direction is absent; the call never fails because of the direction.
C6_DirectionMapping ==
    (QueryCallHandled /\ ~CollectionMissing /\ call.fault = "none"
        /\ call.arguments[1].orderBy # None
        /\ call.arguments[1].orderBy[1].field # None) =>
        LET ob == call.arguments[1].orderBy[1]
        IN /\ JsonResult
           /\ query.order =
                Some([field |-> ob.field[1],
                      direction |-> IF ob.direction = Some("desc")
                                    THEN "DESCENDING" ELSE "ASCENDING"])

\* C7: every where tuple becomes exactly one filter constraint, the constraints
\* are ANDed, every permutation of the where sequence returns the same set of
\* documents, and filters come before ordering, ordering before the limit.
C7_WhereClausesAnded ==
    (QueryCallHandled /\ JsonResult) =>
        LET a == call.arguments[1]
            w == WhereOf(a)
            anded == Ordered(MatchingAll(a.collection[1], w), query)
        IN /\ query.filters = w
           /\ outcome.docs =
                Project(IF query.limit = None THEN anded ELSE SeqTake(anded, query.limit[1]))
           /\ \A pw \in Rearrangements(w) :
                LET r == handle_call_tool(call.name,
                                          Some([a EXCEPT !.where = Some(pw)]), call.fault)
                IN r.outcome.kind = "return" /\ Range(r.outcome.docs) = Range(outcome.docs)
           /\ CalledBefore("collection", "where")
           /\ CalledBefore("where", "order_by")
           /\ CalledBefore("where", "limit")
           /\ CalledBefore("order_by", "limit")
           /\ CalledBefore("limit", "stream")
           /\ CalledBefore("where", "stream")

\* A query with two different clauses, an ordering and a limit that returned
\* some but not all of the collection's documents.
C7_Witness ==
    /\ QueryCallHandled /\ JsonResult
    /\ Len(query.filters) = 2 /\ query.filters[1] # query.filters[2]
    /\ query.order # None /\ query.limit # None
    /\ Len(outcome.docs) = 1
    /\ Len(MatchingAll(query.collection[1], <<query.filters[1]>>)) >= 2
    /\ Len(MatchingAll(query.collection[1], <<query.filters[2]>>)) >= 2

\* C8: with a required configuration value absent at startup, store
\* initialization is skipped and the connector unavailable, the process keeps
\* running and serving, and every store-dependent call then fails fast with a
\* ConnectionError error result without any store call.
C8_MissingConfigKeepsServing ==
    (required_vars \ env # {} /\ phase \notin {"start", "loaded", "crashed"}) =>
        /\ db = FALSE
        /\ phase \in {"serving", "handled"}
        /\ (phase = "handled" /\ call.op \in {"call_tool", "read_resource"}) =>
               (ErrorResult /\ outcome.detail = "ConnectionError" /\ storeCalls = <<>>)

\* C9: handle_read_resource fails hard, before any store access, when the
\* scheme is not exactly "firestore"; otherwise it returns every document of
\* the collection named by the URI's authority, so that the URI
\* handle_list_resources produces for collection c reads back collection c.
C9_ReadResourceRoundTrip ==
    (phase = "handled" /\ call.op = "read_resource") =>
        /\ Scheme(call.uri) # FirestoreScheme =>
               (outcome.kind = "raise" /\ storeCalls = <<>>)
        /\ (Scheme(call.uri) = FirestoreScheme /\ call.fault = "none") =>
               (JsonResult /\ outcome.docs = Project(DocsIn(Netloc(call.uri))))
        /\ \A i \in 1..Len(store.colls) :
               (call.uri = handle_list_resources(-1).outcome.resources[i].uri
                    /\ call.fault = "none") =>
               (JsonResult /\ query.collection = Some(store.colls[i])
                    /\ outcome.docs = Project(DocsIn(store.colls[i])))

\* C10: handle_list_resources never raises: when enumerating the collections
\* fails at any point it returns the empty list, never an error or a partial
\* list; when it succeeds it returns exactly one resource per collection.
C10_ListResourcesDegradesToEmpty ==
    (phase = "handled" /\ call.op = "list_resources") =>
        /\ outcome.kind = "return"
        /\ call.failAt \in 0..Len(store.colls) => outcome.resources = <<>>
        /\ call.failAt = -1 =>
               /\ Len(outcome.resources) = Len(store.colls)
               /\ \A i \in 1..Len(store.colls) :
                     /\ outcome.resources[i].name = store.colls[i]
                     /\ outcome.resources[i].uri = ResourceUri(store.colls[i])

\* Enumeration failed on the second collection, after a resource was built.
C10_Witness ==
    /\ phase = "handled" /\ call.op = "list_resources"
    /\ call.failAt = 2 /\ Len(store.colls) >= 2
    /\ outcome.kind = "return" /\ outcome.resources = <<>>

====
